---- MODULE Spec2Model ----
(***************************************************************************)
(* Typed value extraction (FromSql) and the tuple column store of          *)
(* clickhouse-rs: src/types/from_sql.rs and src/types/column/tuple.rs.     *)
(*                                                                         *)
(* Two specifications share the module:                                    *)
(*   SpecFromSql  - one T::from_sql(value) call per behaviour, the inputs  *)
(*                  (destination type, tagged value) drawn by Init;        *)
(*   SpecColumn   - a TupleColumnData built by load and then used through  *)
(*                  the ColumnData operations.                             *)
(***************************************************************************)
EXTENDS Integers, Sequences, FiniteSets, TLC

VARIABLES value, dst, result, columns, loaded, op, ret

vars == <<value, dst, result, columns, loaded, op, ret>>

fromSqlVars == <<value, dst, result>>

columnVars == <<columns, loaded, op, ret>>

(***************************************************************************)
(* Bounds                                                                  *)
(***************************************************************************)
\* longest array value (number of elements)
MaxLen == 2

\* largest tuple arity of values and of destination product types
MaxArity == 2

\* largest row count of a tuple column
MaxRows == 2

\* largest number of sub-columns of a tuple column
MaxFields == 2

\* number of clone slots next to the loaded column
MaxClones == 1

(***************************************************************************)
(* Generic helpers                                                         *)
(***************************************************************************)
SeqsUpTo(S, lo, hi) == UNION {[1..n -> S] : n \in lo..hi}

RECURSIVE Pow10(_)
Pow10(n) == IF n = 0 THEN 1 ELSE 10 * Pow10(n - 1)

(***************************************************************************)
(* Outcomes of a conversion.  calls is the list of nested conversions the  *)
(* call made, in the order it made them.                                   *)
(***************************************************************************)
Pending == [kind |-> "Pending"]

Ok(v, calls) == [kind |-> "Ok", val |-> v, calls |-> calls]

InvalidType(src, d) == [kind |-> "Err", error |-> "InvalidType", src |-> src, dst |-> d, calls |-> <<>>]

Panic(msg) == [kind |-> "Panic", msg |-> msg, calls |-> <<>>]

Call(t, v) == [t |-> t, value |-> v]

WithCalls(calls, r) == [r EXCEPT !.calls = calls \o @]

(***************************************************************************)
(* Destination types                                                       *)
(***************************************************************************)
Prims == {"u8", "u16", "u32", "u64", "i8", "i16", "i32", "i64", "f32", "f64"}

PrimTag ==
  [t \in Prims |->
     CASE t = "u8" -> "UInt8" [] t = "u16" -> "UInt16" [] t = "u32" -> "UInt32"
       [] t = "u64" -> "UInt64" [] t = "i8" -> "Int8" [] t = "i16" -> "Int16"
       [] t = "i32" -> "Int32" [] t = "i64" -> "Int64" [] t = "f32" -> "Float32"
       [] t = "f64" -> "Float64"]

VecPrims == Prims \ {"u8"}

VecClosureTypes == {"&str", "String", "Date<Tz>", "DateTime<Tz>"}

ScalarTypes ==
  Prims \cup {"Decimal", "Enum8", "Enum16", "&str", "&[u8]", "String",
              "Ipv4Addr", "Ipv6Addr", "Uuid", "Date<Tz>", "DateTime<Tz>"}

T(k) == [k |-> k]

OptionOf(t) == [k |-> "Option", t |-> t]

VecOf(t) == [k |-> "Vec", t |-> t]

TupleOf(ts) == [k |-> "Tuple", ts |-> ts]

(***************************************************************************)
(* SqlType and its Display                                                 *)
(***************************************************************************)
Ty(k) == [k |-> k]

TyDateTime(p) == [k |-> "DateTime", p |-> p]

TyNullable(ty) == [k |-> "Nullable", of |-> ty]

TyArray(ty) == [k |-> "Array", of |-> ty]

TyTuple(tys) == [k |-> "Tuple", ofs |-> tys]

RECURSIVE SqlTypeFrom(_)
SqlTypeFrom(v) ==
  CASE v.tag = "DateTime" -> TyDateTime("DateTime32")
    [] v.tag = "DateTime64" -> TyDateTime("DateTime64")
    [] v.tag = "Nullable" ->
         IF v.e.side = "Left" THEN TyNullable(v.e.ty) ELSE TyNullable(SqlTypeFrom(v.e.u))
    [] v.tag = "Array" -> TyArray(v.ty)
    [] v.tag = "Tuple" -> TyTuple([i \in 1..Len(v.vs) |-> SqlTypeFrom(v.vs[i])])
    [] OTHER -> Ty(v.tag)

RECURSIVE SqlTypeToString(_)
RECURSIVE JoinTypes(_, _)
JoinTypes(tys, i) ==
  IF i > Len(tys) THEN ""
  ELSE (IF i > 1 THEN ", " ELSE "") \o SqlTypeToString(tys[i]) \o JoinTypes(tys, i + 1)

SqlTypeToString(ty) ==
  CASE ty.k = "DateTime" -> IF ty.p = "DateTime32" THEN "DateTime" ELSE "DateTime64"
    [] ty.k = "Nullable" -> "Nullable(" \o SqlTypeToString(ty.of) \o ")"
    [] ty.k = "Array" -> "Array(" \o SqlTypeToString(ty.of) \o ")"
    [] ty.k = "Tuple" -> "Tuple(" \o JoinTypes(ty.ofs, 1) \o ")"
    [] OTHER -> ty.k

\* SqlType::from(value.clone()).to_string()
from(v) == SqlTypeToString(SqlTypeFrom(v))

(***************************************************************************)
(* Names of destination types                                              *)
(***************************************************************************)
\* stringify!($t) of the macro invocations
stringify(t) == IF t.k = "&str" THEN "&'a str" ELSE t.k

RECURSIVE type_name(_)
RECURSIVE JoinNames(_, _)
JoinNames(ts, i) ==
  IF i > Len(ts) THEN ""
  ELSE (IF i > 1 THEN ", " ELSE "") \o type_name(ts[i]) \o JoinNames(ts, i + 1)

type_name(t) ==
  CASE t.k = "Option" -> "core::option::Option<" \o type_name(t.t) \o ">"
    [] t.k = "Vec" -> "alloc::vec::Vec<" \o type_name(t.t) \o ">"
    [] t.k = "Tuple" ->
         IF Len(t.ts) = 1 THEN "(" \o type_name(t.ts[1]) \o ",)"
         ELSE "(" \o JoinNames(t.ts, 1) \o ")"
    [] t.k = "String" -> "alloc::string::String"
    [] OTHER -> t.k

type_of(t) == type_name(t)

(***************************************************************************)
(* Tagged values (ValueRef)                                                *)
(***************************************************************************)
Num(tag, n) == [tag |-> tag, v |-> n]

Str(bytes) == [tag |-> "String", bytes |-> bytes]

Enum(tag, enum_values, n) == [tag |-> tag, enum_values |-> enum_values, enum |-> [member |-> n]]

Date(days, tz) == [tag |-> "Date", v |-> days, tz |-> tz]

DateTime(secs, tz) == [tag |-> "DateTime", v |-> secs, tz |-> tz]

DateTime64(n, precision, tz) == [tag |-> "DateTime64", v |-> n, precision |-> precision, tz |-> tz]

Bytes(tag, bytes) == [tag |-> tag, bytes |-> bytes]

NullLeft(ty) == [tag |-> "Nullable", e |-> [side |-> "Left", ty |-> ty]]

NullRight(u) == [tag |-> "Nullable", e |-> [side |-> "Right", u |-> u]]

Array(ty, vs) == [tag |-> "Array", ty |-> ty, vs |-> vs]

Tuple(vs) == [tag |-> "Tuple", vs |-> vs]

(***************************************************************************)
(* Time zones: the offset from UTC, in seconds, at the modelled instants   *)
(***************************************************************************)
Tzs == {"UTC", "America/New_York"}

TzOffset(tz) == IF tz = "UTC" THEN 0 ELSE 0 - 18000

\* tz.timestamp(secs, nanos)
timestamp(tz, secs, nanos) == [secs |-> secs, nanos |-> nanos, tz |-> tz]

\* DateTime<Tz>::date(): the calendar day, in tz, that holds the instant
date(time) == [day |-> (time.secs + TzOffset(time.tz)) \div 86400, tz |-> time.tz]

\* datetime64::to_datetime(value, precision, tz)
to_datetime(n, precision, tz) ==
  timestamp(tz, n \div Pow10(precision), (n % Pow10(precision)) * Pow10(9 - precision))

(***************************************************************************)
(* ValueRef accessors and infallible From<ValueRef> conversions            *)
(***************************************************************************)
as_str(v) == IF v.tag = "String" THEN Ok(v.bytes, <<>>) ELSE InvalidType(from(v), "&str")

as_bytes(v) == IF v.tag = "String" THEN Ok(v.bytes, <<>>) ELSE InvalidType(from(v), "&[u8]")

as_string(v) == IF v.tag = "String" THEN Ok(v.bytes, <<>>) ELSE InvalidType(from(v), "String")

CantConvert(v, name) == Panic("Can't convert ValueRef::" \o from(v) \o " into " \o name \o ".")

\* impl From<ValueRef> for $t: the signature has no error value
into(t, v) ==
  CASE t.k \in Prims ->
         IF v.tag = PrimTag[t.k] THEN Ok(v.v, <<>>) ELSE CantConvert(v, t.k)
    [] t.k = "Date<Tz>" ->
         IF v.tag = "Date" THEN Ok(date(timestamp(v.tz, v.v * 24 * 3600, 0)), <<>>)
         ELSE CantConvert(v, t.k)
    [] t.k = "DateTime<Tz>" ->
         IF v.tag = "DateTime" THEN Ok(timestamp(v.tz, v.v, 0), <<>>)
         ELSE IF v.tag = "DateTime64" THEN Ok(to_datetime(v.v, v.precision, v.tz), <<>>)
         ELSE CantConvert(v, t.k)

(***************************************************************************)
(* FromSql implementations                                                 *)
(***************************************************************************)
RECURSIVE from_sql(_, _)

\* a from_sql_impl that widens UInt16 into u32
from_sql_impl_widening(t, v) ==
  IF v.tag = PrimTag[t.k] \/ (t.k = "u32" /\ v.tag = "UInt16") THEN Ok(v.v, <<>>)
  ELSE InvalidType(from(v), stringify(t))

\* from_sql_impl! { u8: UInt8, ... }
from_sql_impl(t, v) ==
  IF v.tag = PrimTag[t.k] THEN Ok(v.v, <<>>) ELSE InvalidType(from(v), stringify(t))

from_sql_Decimal(t, v) ==
  IF v.tag = "Decimal" THEN Ok(v.v, <<>>) ELSE InvalidType(from(v), "Decimal")

\* a from_sql for Enum8 that takes either enum tag
from_sql_Enum8_either(t, v) ==
  IF v.tag \in {"Enum8", "Enum16"} THEN Ok(v.enum, <<>>) ELSE InvalidType(from(v), "Enum8")

from_sql_Enum8(t, v) ==
  IF v.tag = "Enum8" THEN Ok(v.enum, <<>>) ELSE InvalidType(from(v), "Enum8")

from_sql_Enum16(t, v) ==
  IF v.tag = "Enum16" THEN Ok(v.enum, <<>>) ELSE InvalidType(from(v), "Enum16")

from_sql_str(t, v) == as_str(v)

from_sql_bytes(t, v) == as_bytes(v)

\* value.as_str().map(str::to_string)
from_sql_String(t, v) == as_str(v)

from_sql_Ipv4Addr(t, v) ==
  IF v.tag = "Ipv4" THEN Ok(v.bytes, <<>>) ELSE InvalidType(from(v), "Ipv4")

from_sql_Ipv6Addr(t, v) ==
  IF v.tag = "Ipv6" THEN Ok(v.bytes, <<>>) ELSE InvalidType(from(v), "Ipv6")

from_sql_Uuid(t, v) ==
  IF v.tag = "Uuid" THEN Ok(v.bytes, <<>>) ELSE InvalidType(from(v), "Uuid")

from_sql_Date(t, v) ==
  IF v.tag = "Date" THEN Ok(date(timestamp(v.tz, v.v * 24 * 3600, 0)), <<>>)
  ELSE InvalidType(from(v), "Date<Tz>")

from_sql_DateTime(t, v) ==
  CASE v.tag = "DateTime" -> Ok(timestamp(v.tz, v.v, 0), <<>>)
    [] v.tag = "DateTime64" -> Ok(to_datetime(v.v, v.precision, v.tz), <<>>)
    [] OTHER -> InvalidType(from(v), "DateTime<Tz>")

\* the closure $f of the first from_sql_vec_impl! invocation
vec_closure(t, v) ==
  CASE t.k = "&str" -> as_str(v)
    [] t.k = "String" -> as_string(v)
    [] OTHER -> into(t, v)

\* the pattern $k of the first from_sql_vec_impl! invocation
vec_closure_pat(t, ty) ==
  CASE t.k = "&str" -> ty.k = "String"
    [] t.k = "String" -> ty.k = "String"
    [] t.k = "Date<Tz>" -> ty.k = "Date"
    [] t.k = "DateTime<Tz>" -> ty.k = "DateTime"

\* for v in vs.iter() { let value: $t = f(v.clone())?; result.push(value); }
RECURSIVE vec_closure_loop(_, _, _, _, _)
vec_closure_loop(t, vs, i, acc, calls) ==
  IF i > Len(vs) THEN Ok(acc, calls)
  ELSE LET r == vec_closure(t, vs[i])
           cs == Append(calls, Call(t, vs[i]))
       IN IF r.kind = "Ok" THEN vec_closure_loop(t, vs, i + 1, Append(acc, r.val), cs)
          ELSE WithCalls(cs, r)

\* from_sql_vec_impl! { &'a str: ..., String: ..., Date<Tz>: ..., DateTime<Tz>: ... }
from_sql_vec_closure(t, v) ==
  IF v.tag = "Array" /\ vec_closure_pat(t.t, v.ty)
  THEN vec_closure_loop(t.t, v.vs, 1, <<>>, <<>>)
  ELSE InvalidType(from(v), "Vec<" \o stringify(t.t) \o ">")

\* for v in vs.iter() { result.push(v.clone().into()); }
RECURSIVE vec_into_loop(_, _, _, _, _)
vec_into_loop(t, vs, i, acc, calls) ==
  IF i > Len(vs) THEN Ok(acc, calls)
  ELSE LET r == into(t, vs[i])
           cs == Append(calls, Call(t, vs[i]))
       IN IF r.kind = "Ok" THEN vec_into_loop(t, vs, i + 1, Append(acc, r.val), cs)
          ELSE WithCalls(cs, r)

\* impl FromSql for Vec<u8>
from_sql_vec_u8(t, v) ==
  IF v.tag = "Array" /\ v.ty.k = "UInt8"
  THEN vec_into_loop(t.t, v.vs, 1, <<>>, <<>>)
  ELSE as_bytes(v)

\* a from_sql_vec_impl that does not look at the declared element type
from_sql_vec_impl_any_array(t, v) ==
  IF v.tag = "Array"
  THEN vec_into_loop(t.t, v.vs, 1, <<>>, <<>>)
  ELSE InvalidType(from(v), stringify(t.t))

\* from_sql_vec_impl! { i8: Int8, ... } (the second macro of that name)
from_sql_vec_impl(t, v) ==
  IF v.tag = "Array" /\ v.ty.k = PrimTag[t.t.k]
  THEN vec_into_loop(t.t, v.vs, 1, <<>>, <<>>)
  ELSE InvalidType(from(v), stringify(t.t))

\* an Option<T> that turns a failed inner conversion into None
from_sql_Option_swallowing(t, v) ==
  IF v.tag = "Nullable"
  THEN IF v.e.side = "Left" THEN Ok(<<>>, <<>>)
       ELSE LET r == from_sql(t.t, v.e.u)
                cs == <<Call(t.t, v.e.u)>>
            IN IF r.kind = "Ok" THEN Ok(<<r.val>>, cs \o r.calls)
               ELSE Ok(<<>>, cs \o r.calls)
  ELSE InvalidType(from(v), "$t")

\* impl FromSql for Option<T>
from_sql_Option(t, v) ==
  IF v.tag = "Nullable"
  THEN IF v.e.side = "Left" THEN Ok(<<>>, <<>>)
       ELSE LET r == from_sql(t.t, v.e.u)
                cs == <<Call(t.t, v.e.u)>>
            IN IF r.kind = "Ok" THEN Ok(<<r.val>>, cs \o r.calls)
               ELSE WithCalls(cs, r)
  ELSE InvalidType(from(v), "$t")

\* Ok(( $( <$tparam>::from_sql(vs[seq.next().unwrap()].clone())?, )+ ))
RECURSIVE tuple_fields(_, _, _, _, _)
tuple_fields(ts, vs, i, acc, calls) ==
  IF i > Len(ts) THEN Ok(acc, calls)
  ELSE LET r == from_sql(ts[i], vs[i])
           cs == Append(calls, Call(ts[i], vs[i]))
       IN IF r.kind = "Ok" THEN tuple_fields(ts, vs, i + 1, Append(acc, r.val), cs \o r.calls)
          ELSE WithCalls(cs, r)

\* tuple_len!($($tparam),+)
tuple_len(ts) == Len(ts)

\* a from_sql_tuple_impl that takes a longer tuple and converts its prefix
from_sql_tuple_impl_prefix(t, v) ==
  IF v.tag = "Tuple" /\ Len(v.vs) >= tuple_len(t.ts)
  THEN tuple_fields(t.ts, v.vs, 1, <<>>, <<>>)
  ELSE InvalidType(from(v), type_of(t))

\* from_sql_tuple_impl!(T1, ..., Tk)
from_sql_tuple_impl(t, v) ==
  IF v.tag = "Tuple" /\ Len(v.vs) = tuple_len(t.ts)
  THEN tuple_fields(t.ts, v.vs, 1, <<>>, <<>>)
  ELSE InvalidType(from(v), type_of(t))

RECURSIVE vec_of_tuples_loop(_, _, _, _, _)
vec_of_tuples_loop(t, vs, i, acc, calls) ==
  IF i > Len(vs) THEN Ok(acc, calls)
  ELSE LET r == from_sql_tuple_impl(t, vs[i])
           cs == Append(calls, Call(t, vs[i]))
       IN IF r.kind = "Ok" THEN vec_of_tuples_loop(t, vs, i + 1, Append(acc, r.val), cs \o r.calls)
          ELSE WithCalls(cs, r)

\* from_sql_vec_of_tuples_impl!(T1, ..., Tk)
from_sql_vec_of_tuples_impl(t, v) ==
  IF v.tag = "Array" /\ v.ty.k = "Tuple"
  THEN vec_of_tuples_loop(t.t, v.vs, 1, <<>>, <<>>)
  ELSE InvalidType(from(v), "Vec<" \o type_of(t.t) \o ">")

\* <T as FromSql>::from_sql(value): the implementation Rust selects for T
from_sql(t, v) ==
  CASE t.k \in Prims -> from_sql_impl(t, v)
    [] t.k = "Decimal" -> from_sql_Decimal(t, v)
    [] t.k = "Enum8" -> from_sql_Enum8(t, v)
    [] t.k = "Enum16" -> from_sql_Enum16(t, v)
    [] t.k = "&str" -> from_sql_str(t, v)
    [] t.k = "&[u8]" -> from_sql_bytes(t, v)
    [] t.k = "String" -> from_sql_String(t, v)
    [] t.k = "Ipv4Addr" -> from_sql_Ipv4Addr(t, v)
    [] t.k = "Ipv6Addr" -> from_sql_Ipv6Addr(t, v)
    [] t.k = "Uuid" -> from_sql_Uuid(t, v)
    [] t.k = "Date<Tz>" -> from_sql_Date(t, v)
    [] t.k = "DateTime<Tz>" -> from_sql_DateTime(t, v)
    [] t.k = "Option" -> from_sql_Option(t, v)
    [] t.k = "Tuple" -> from_sql_tuple_impl(t, v)
    [] t.k = "Vec" /\ t.t.k = "u8" -> from_sql_vec_u8(t, v)
    [] t.k = "Vec" /\ t.t.k \in VecPrims -> from_sql_vec_impl(t, v)
    [] t.k = "Vec" /\ t.t.k \in VecClosureTypes -> from_sql_vec_closure(t, v)
    [] t.k = "Vec" /\ t.t.k = "Tuple" -> from_sql_vec_of_tuples_impl(t, v)

(***************************************************************************)
(* Inputs of the conversions                                               *)
(***************************************************************************)
PayloadVals == {7, 42}

EnumTableA == <<[name |-> "a", n |-> 1], [name |-> "b", n |-> 2]>>

EnumTableB == <<[name |-> "x", n |-> 1]>>

NumValues == {Num(PrimTag[t], n) : t \in Prims, n \in PayloadVals}

StrValues == {Str(<<97>>), Str(<<104, 105>>)}

EnumValues ==
  {Enum("Enum8", EnumTableA, 1), Enum("Enum8", EnumTableB, 1), Enum("Enum8", EnumTableA, 2),
   Enum("Enum16", EnumTableA, 2), Enum("Enum16", EnumTableB, 1)}

DateValues == {Date(0, "UTC"), Date(1, "America/New_York")}

DateTimeValues == {DateTime(86399, "America/New_York"), DateTime64(1500, 3, "UTC")}

OtherValues ==
  {Num("Decimal", 314), Bytes("Ipv4", <<127, 0, 0, 1>>),
   Bytes("Ipv6", [i \in 1..16 |-> IF i = 16 THEN 1 ELSE 0]),
   Bytes("Uuid", [i \in 1..16 |-> i])}

ScalarValues == NumValues \cup StrValues \cup EnumValues \cup DateValues \cup DateTimeValues \cup OtherValues

NullableValues ==
  {NullLeft(Ty("UInt8")), NullRight(Num("UInt8", 7)), NullRight(Num("UInt16", 42)),
   NullRight(Str(<<97>>)), NullRight(NullLeft(Ty("UInt8"))), NullRight(Enum("Enum8", EnumTableA, 1))}

ElemTypes ==
  {Ty(PrimTag[t]) : t \in Prims} \cup {Ty("String"), Ty("Date"), TyDateTime("DateTime32"), TyDateTime("DateTime64")}

\* elements an array of declared type ty is filled from: values of that
\* type and one value of another type
ElemsFor(ty) ==
  {v \in ScalarValues : SqlTypeFrom(v) = ty}
    \cup {IF ty.k = "UInt8" THEN Num("UInt16", 42) ELSE Num("UInt8", 7)}

ArrayValues == UNION {{Array(ty, vs) : vs \in SeqsUpTo(ElemsFor(ty), 0, MaxLen)} : ty \in ElemTypes}

TupleElems == {Num("UInt8", 5), Num("UInt16", 42), Str(<<104, 105>>), NullLeft(Ty("UInt8"))}

TupleValues == {Tuple(vs) : vs \in SeqsUpTo(TupleElems, 0, MaxArity)}

TupleArrayElems ==
  {Tuple(<<Num("UInt8", 5), Str(<<104, 105>>)>>), Tuple(<<Num("UInt8", 7), Str(<<97>>)>>),
   Tuple(<<Num("UInt8", 5)>>)}

TupleArrayValues ==
  {Array(TyTuple(<<Ty("UInt8"), Ty("String")>>), vs) : vs \in SeqsUpTo(TupleArrayElems, 0, MaxLen)}

Values == ScalarValues \cup NullableValues \cup ArrayValues \cup TupleValues \cup TupleArrayValues

ScalarDsts == {T(k) : k \in ScalarTypes}

OptionDsts == {OptionOf(t) : t \in ScalarDsts \cup {OptionOf(T("u8"))}}

VecDsts == {VecOf(T(k)) : k \in Prims \cup VecClosureTypes}

TupleElemDsts == {T("u8"), T("u32"), T("&str"), OptionOf(T("u8"))}

TupleDsts == {TupleOf(ts) : ts \in SeqsUpTo(TupleElemDsts, 1, MaxArity)}

VecTupleDsts == {VecOf(TupleOf(ts)) : ts \in SeqsUpTo({T("u8"), T("&str")}, 1, MaxArity)}

Dsts == ScalarDsts \cup OptionDsts \cup VecDsts \cup TupleDsts \cup VecTupleDsts

(***************************************************************************)
(* SpecFromSql: one call of <dst as FromSql>::from_sql(value)              *)
(***************************************************************************)
NoColumns == [c \in 0..MaxClones |-> <<>>]

InitFromSql ==
  /\ value \in Values
  /\ dst \in Dsts
  /\ result = Pending
  /\ columns = NoColumns
  /\ loaded = NoColumns
  /\ op = [name |-> "none"]
  /\ ret = Pending

Returns(r) == result = Pending /\ result' = r /\ UNCHANGED <<value, dst, columns, loaded, op, ret>>

CallPrimitive == dst.k \in Prims /\ Returns(from_sql_impl(dst, value))

CallDecimal == dst.k = "Decimal" /\ Returns(from_sql_Decimal(dst, value))

CallEnum8 == dst.k = "Enum8" /\ Returns(from_sql_Enum8(dst, value))

CallEnum16 == dst.k = "Enum16" /\ Returns(from_sql_Enum16(dst, value))

CallStr == dst.k = "&str" /\ Returns(from_sql_str(dst, value))

CallBytes == dst.k = "&[u8]" /\ Returns(from_sql_bytes(dst, value))

CallString == dst.k = "String" /\ Returns(from_sql_String(dst, value))

CallIpv4Addr == dst.k = "Ipv4Addr" /\ Returns(from_sql_Ipv4Addr(dst, value))

CallIpv6Addr == dst.k = "Ipv6Addr" /\ Returns(from_sql_Ipv6Addr(dst, value))

CallUuid == dst.k = "Uuid" /\ Returns(from_sql_Uuid(dst, value))

CallDate == dst.k = "Date<Tz>" /\ Returns(from_sql_Date(dst, value))

CallDateTime == dst.k = "DateTime<Tz>" /\ Returns(from_sql_DateTime(dst, value))

CallOption == dst.k = "Option" /\ Returns(from_sql_Option(dst, value))

CallTuple == dst.k = "Tuple" /\ Returns(from_sql_tuple_impl(dst, value))

CallVecU8 == dst.k = "Vec" /\ dst.t.k = "u8" /\ Returns(from_sql_vec_u8(dst, value))

CallVecPrimitive == dst.k = "Vec" /\ dst.t.k \in VecPrims /\ Returns(from_sql_vec_impl(dst, value))

CallVecClosure == dst.k = "Vec" /\ dst.t.k \in VecClosureTypes /\ Returns(from_sql_vec_closure(dst, value))

CallVecOfTuples == dst.k = "Vec" /\ dst.t.k = "Tuple" /\ Returns(from_sql_vec_of_tuples_impl(dst, value))

NextFromSql ==
  \/ CallPrimitive
  \/ CallDecimal
  \/ CallEnum8
  \/ CallEnum16
  \/ CallStr
  \/ CallBytes
  \/ CallString
  \/ CallIpv4Addr
  \/ CallIpv6Addr
  \/ CallUuid
  \/ CallDate
  \/ CallDateTime
  \/ CallOption
  \/ CallTuple
  \/ CallVecU8
  \/ CallVecPrimitive
  \/ CallVecClosure
  \/ CallVecOfTuples

SpecFromSql == InitFromSql /\ [][NextFromSql]_vars

(***************************************************************************)
(* Sub-columns: the ColumnData capability of the columns a tuple column    *)
(* is built from                                                           *)
(***************************************************************************)
TypeNames == {"UInt8", "String", "Bogus"}

KnownTypeNames == {"UInt8", "String"}

\* what the reader holds for one sub-column: one raw cell per row
Cells == {0, 1}

Decode(ty_name, cell) ==
  IF ty_name = "UInt8" THEN Num("UInt8", 10 + cell) ELSE Str(<<120 + cell>>)

\* ColumnData::load_data::<BoxColumnWrapper, _>(reader, ty_name, size, tz)
load_data(cells, ty_name, size) ==
  IF ty_name \in KnownTypeNames
  THEN Ok([sql_type |-> Ty(ty_name), data |-> [i \in 1..size |-> Decode(ty_name, cells[i])]], <<>>)
  ELSE [kind |-> "Err", error |-> "UnknownType", calls |-> <<>>]

inner_len(inner) == Len(inner.data)

inner_sql_type(inner) == inner.sql_type

inner_at(inner, index) ==
  IF index < Len(inner.data) THEN Ok(inner.data[index + 1], <<>>) ELSE Panic("index out of bounds")

inner_clone_instance(inner) == [sql_type |-> inner.sql_type, data |-> inner.data]

(***************************************************************************)
(* TupleColumnData                                                         *)
(***************************************************************************)
TupleColumnData(inners, size) == [inners |-> inners, size |-> size]

\* for type_name in type_names { inners.push(load_data(...)?); }
RECURSIVE load_loop(_, _, _, _, _)
load_loop(reader, type_names, size, i, inners) ==
  IF i > Len(type_names) THEN Ok(TupleColumnData(inners, size), <<>>)
  ELSE LET r == load_data(reader[i], type_names[i], size)
       IN IF r.kind = "Ok" THEN load_loop(reader, type_names, size, i + 1, Append(inners, r.val))
          ELSE r

load(reader, type_names, size) == load_loop(reader, type_names, size, 1, <<>>)

sql_type(self) == TyTuple([j \in 1..Len(self.inners) |-> inner_sql_type(self.inners[j])])

len(self) == self.size

\* an at that collects the components in reverse sub-column order
at_reversed(self, index) ==
  IF \E j \in 1..Len(self.inners) : inner_at(self.inners[j], index).kind = "Panic"
  THEN Panic("index out of bounds")
  ELSE LET n == Len(self.inners)
       IN Ok(Tuple([j \in 1..n |-> inner_at(self.inners[n + 1 - j], index).val]), <<>>)

at(self, index) ==
  IF \E j \in 1..Len(self.inners) : inner_at(self.inners[j], index).kind = "Panic"
  THEN Panic("index out of bounds")
  ELSE Ok(Tuple([j \in 1..Len(self.inners) |-> inner_at(self.inners[j], index).val]), <<>>)

\* a clone_instance that takes the number of sub-columns for the size
clone_instance_resized(self) ==
  TupleColumnData([j \in 1..Len(self.inners) |-> inner_clone_instance(self.inners[j])], Len(self.inners))

clone_instance(self) ==
  TupleColumnData([j \in 1..Len(self.inners) |-> inner_clone_instance(self.inners[j])], self.size)

\* a push that counts the row and returns
push_counting(self, v) == [column |-> TupleColumnData(self.inners, self.size + 1), outcome |-> Ok("unit", <<>>)]

\* unimplemented!(): the call never returns; the column it was given is
\* what is left behind
push(self, v) == [column |-> self, outcome |-> Panic("not implemented")]

save(self, start, end) == [column |-> self, outcome |-> Panic("not implemented")]

(***************************************************************************)
(* SpecColumn: a tuple column is loaded into slot 0, read, and cloned      *)
(* into the other slots                                                    *)
(***************************************************************************)
Slots == 0..MaxClones

Live == {c \in Slots : columns[c] # <<>>}

\* the slot the next clone is put in
NextFree == {d \in Slots \ Live : \A e \in Slots \ Live : d <= e} \ {0}

\* the (start, end) ranges save is called with
SaveRanges == {<<0, 0>>, <<0, MaxRows>>}

PushValues == {Num("UInt8", 10), Tuple(<<Num("UInt8", 10), Str(<<120>>)>>)}

InitColumn ==
  /\ value = Num("UInt8", 7)
  /\ dst = T("u8")
  /\ result = Pending
  /\ columns = NoColumns
  /\ loaded = NoColumns
  /\ op = [name |-> "none"]
  /\ ret = Pending

Load ==
  /\ columns[0] = <<>>
  /\ \E type_names \in SeqsUpTo(TypeNames, 0, MaxFields), size \in 0..MaxRows :
       \E reader \in [1..Len(type_names) -> [1..size -> Cells]] :
         LET r == load(reader, type_names, size)
         IN /\ op' = [name |-> "load", type_names |-> type_names, size |-> size]
            /\ IF r.kind = "Ok"
               THEN /\ columns' = [columns EXCEPT ![0] = <<r.val>>]
                    /\ loaded' = [loaded EXCEPT ![0] = <<size>>]
                    /\ ret' = Ok("column", <<>>)
               ELSE /\ ret' = r
                    /\ UNCHANGED <<columns, loaded>>
  /\ UNCHANGED fromSqlVars

LenOp ==
  /\ \E c \in Live :
       /\ op' = [name |-> "len", c |-> c]
       /\ ret' = Ok(len(columns[c][1]), <<>>)
  /\ UNCHANGED <<columns, loaded>>
  /\ UNCHANGED fromSqlVars

AtOp ==
  /\ \E c \in Live, index \in 0..MaxRows :
       /\ op' = [name |-> "at", c |-> c, index |-> index]
       /\ ret' = at(columns[c][1], index)
  /\ UNCHANGED <<columns, loaded>>
  /\ UNCHANGED fromSqlVars

SqlTypeOp ==
  /\ \E c \in Live :
       /\ op' = [name |-> "sql_type", c |-> c]
       /\ ret' = Ok(sql_type(columns[c][1]), <<>>)
  /\ UNCHANGED <<columns, loaded>>
  /\ UNCHANGED fromSqlVars

CloneInstance ==
  /\ \E c \in Live, d \in NextFree :
       /\ op' = [name |-> "clone_instance", c |-> c, d |-> d]
       /\ columns' = [columns EXCEPT ![d] = <<clone_instance(columns[c][1])>>]
       /\ loaded' = [loaded EXCEPT ![d] = loaded[c]]
       /\ ret' = Ok("column", <<>>)
  /\ UNCHANGED fromSqlVars

PushOp ==
  /\ \E c \in Live, v \in PushValues :
       LET r == push(columns[c][1], v)
       IN /\ op' = [name |-> "push", c |-> c]
          /\ columns' = [columns EXCEPT ![c] = <<r.column>>]
          /\ ret' = r.outcome
  /\ UNCHANGED loaded
  /\ UNCHANGED fromSqlVars

SaveOp ==
  /\ \E c \in Live, range \in SaveRanges :
       LET r == save(columns[c][1], range[1], range[2])
       IN /\ op' = [name |-> "save", c |-> c]
          /\ columns' = [columns EXCEPT ![c] = <<r.column>>]
          /\ ret' = r.outcome
  /\ UNCHANGED loaded
  /\ UNCHANGED fromSqlVars

NextColumn ==
  \/ Load
  \/ LenOp
  \/ AtOp
  \/ SqlTypeOp
  \/ CloneInstance
  \/ PushOp
  \/ SaveOp

SpecColumn == InitColumn /\ [][NextColumn]_vars

(***************************************************************************)
(* Properties of the conversions (SpecFromSql)                             *)
(***************************************************************************)
Done == result # Pending

\* the spellings under which a destination type is named
RECURSIVE RustName(_)
RECURSIVE JoinRustNames(_, _)
JoinRustNames(ts, i) ==
  IF i > Len(ts) THEN ""
  ELSE (IF i > 1 THEN ", " ELSE "") \o RustName(ts[i]) \o JoinRustNames(ts, i + 1)

RustName(t) ==
  CASE t.k = "Option" -> "Option<" \o RustName(t.t) \o ">"
    [] t.k = "Vec" -> "Vec<" \o RustName(t.t) \o ">"
    [] t.k = "Tuple" ->
         IF Len(t.ts) = 1 THEN "(" \o RustName(t.ts[1]) \o ",)"
         ELSE "(" \o JoinRustNames(t.ts, 1) \o ")"
    [] OTHER -> t.k

NamesOf(t) ==
  {RustName(t), type_name(t)}
    \cup (IF t.k = "Vec" /\ t.t.k \in VecClosureTypes THEN {"Vec<" \o stringify(t.t) \o ">"} ELSE {})
    \cup (IF t.k = "Vec" /\ t.t.k = "Tuple" THEN {"Vec<" \o type_name(t.t) \o ">"} ELSE {})
    \cup (IF t.k = "Ipv4Addr" THEN {"Ipv4"} ELSE {})
    \cup (IF t.k = "Ipv6Addr" THEN {"Ipv6"} ELSE {})

\* C1: a primitive destination accepts a value iff the value's tag is the
\* one tag associated with the destination, no other tag is coerced, and
\* the result is the value carried.
C1_PrimitiveExactMatch ==
  (Done /\ dst.k \in Prims) =>
    /\ result.kind \in {"Ok", "Err"}
    /\ (result.kind = "Ok") <=> (value.tag = PrimTag[dst.k])
    /\ result.kind = "Ok" => result.val = value.v

C1_Witness ==
  /\ dst = T("u8") /\ value = Num("UInt8", 42)
  /\ result.kind = "Ok" /\ result.val = 42

\* the destinations whose own tag check is written in from_sql.rs (the
\* text destinations and the fall-through of Vec<u8> delegate it to
\* ValueRef::as_str / as_bytes)
OwnTagCheck(t) == ~(t.k \in {"&str", "&[u8]", "String"}) /\ ~(t.k = "Vec" /\ t.t.k = "u8")

\* C2: a value rejected at the destination's own tag check gives one
\* InvalidType error whose src names the value's tag and whose dst names the
\* destination type itself.
C2_RejectionNamesDestination ==
  (Done /\ OwnTagCheck(dst) /\ result.kind = "Err" /\ result.calls = <<>>) =>
    /\ result.error = "InvalidType"
    /\ result.src = from(value)
    /\ result.dst \in NamesOf(dst)

\* C3: Option<T> gives None for an absent Nullable without converting
\* anything; for present(v) it gives Some(r) exactly when T::from_sql(v)
\* gives Ok(r) and otherwise fails with the same error.
C3_OptionWrapsInner ==
  (Done /\ dst.k = "Option" /\ value.tag = "Nullable") =>
    IF value.e.side = "Left" THEN result = Ok(<<>>, <<>>)
    ELSE LET r == from_sql(dst.t, value.e.u)
         IN /\ result.kind = r.kind
            /\ r.kind = "Ok" => result.val = <<r.val>>
            /\ r.kind = "Err" =>
                 /\ result.error = r.error
                 /\ result.src = r.src
                 /\ result.dst = r.dst

C3_Witness ==
  /\ dst = OptionOf(T("u8")) /\ value = NullRight(Num("UInt16", 42))
  /\ result.kind = "Err" /\ result.src = "UInt16" /\ result.dst = "u8"

\* the declared element type a Vec<T> destination expects
ExpectedElem(t) ==
  CASE t.k \in Prims -> PrimTag[t.k]
    [] t.k \in {"&str", "String"} -> "String"
    [] t.k = "Date<Tz>" -> "Date"
    [] t.k = "DateTime<Tz>" -> "DateTime"

IsArrayOf(v, t) == v.tag = "Array" /\ v.ty.k = ExpectedElem(t)

ScalarVec(t) == t.k = "Vec" /\ t.t.k \in Prims \cup VecClosureTypes

\* C4 as stated: Vec<T> succeeds only on an array whose declared element
\* type is the one T expects; every other value is an InvalidType error.
C4_Original ==
  (Done /\ ScalarVec(dst)) =>
    /\ result.kind = "Ok" => IsArrayOf(value, dst.t)
    /\ ~IsArrayOf(value, dst.t) => (result.kind = "Err" /\ result.error = "InvalidType")

VecAccepts(v, t) == IsArrayOf(v, t) \/ (t.k = "u8" /\ v.tag = "String")

\* C4 (amended): as stated for every T but u8; Vec<u8> succeeds also on a
\* String value, whose bytes it returns; every value that is neither is an
\* InvalidType error.
C4_VecAcceptsOnlyItsArray ==
  (Done /\ ScalarVec(dst)) =>
    /\ result.kind = "Ok" => VecAccepts(value, dst.t)
    /\ ~VecAccepts(value, dst.t) => (result.kind = "Err" /\ result.error = "InvalidType")
    /\ (dst.t.k = "u8" /\ value.tag = "String") => result = Ok(value.bytes, <<>>)

C4_Witness ==
  /\ dst = VecOf(T("u8")) /\ value = Str(<<104, 105>>)
  /\ result.kind = "Ok" /\ result.val = <<104, 105>>

FailingIn(t, vs) == {i \in 1..Len(vs) : from_sql(t, vs[i]).kind # "Ok"}

Min(S) == CHOOSE i \in S : \A j \in S : i <= j

\* C5: once the element-type check passed, the elements are converted in
\* index order; if all convert the result has the array's length and holds
\* the conversions in order, otherwise the call returns the error of the
\* first failing element as an error value.
C5_ElementwiseFailFast ==
  (Done /\ ScalarVec(dst) /\ IsArrayOf(value, dst.t)) =>
    LET vs == value.vs
        fails == FailingIn(dst.t, vs)
    IN IF fails = {}
       THEN /\ result.kind = "Ok"
            /\ Len(result.val) = Len(vs)
            /\ \A i \in 1..Len(vs) : result.val[i] = from_sql(dst.t, vs[i]).val
            /\ result.calls = [i \in 1..Len(vs) |-> Call(dst.t, vs[i])]
       ELSE /\ result.kind = "Err"
            /\ result.src = from_sql(dst.t, vs[Min(fails)]).src
            /\ result.calls = [i \in 1..Min(fails) |-> Call(dst.t, vs[i])]

\* the conversions a product conversion makes up to position n, nested
\* ones included, in order
RECURSIVE CallsUpTo(_, _, _)
CallsUpTo(ts, vs, n) ==
  IF n = 0 THEN <<>>
  ELSE CallsUpTo(ts, vs, n - 1) \o <<Call(ts[n], vs[n])>> \o from_sql(ts[n], vs[n]).calls

\* C6: a product destination of arity k converts a tuple value of length k
\* position by position in increasing order and returns the k results in
\* order, or the error of the first failing position; any other value is
\* an InvalidType error naming the product type, and nothing is converted.
C6_TupleConversion ==
  (Done /\ dst.k = "Tuple") =>
    IF value.tag = "Tuple" /\ Len(value.vs) = Len(dst.ts)
    THEN LET k == Len(dst.ts)
             conv(i) == from_sql(dst.ts[i], value.vs[i])
             fails == {i \in 1..k : conv(i).kind # "Ok"}
         IN IF fails = {}
            THEN /\ result.kind = "Ok"
                 /\ Len(result.val) = k
                 /\ \A i \in 1..k : result.val[i] = conv(i).val
                 /\ result.calls = CallsUpTo(dst.ts, value.vs, k)
            ELSE /\ result.kind = "Err"
                 /\ result.error = conv(Min(fails)).error
                 /\ result.src = conv(Min(fails)).src
                 /\ result.dst = conv(Min(fails)).dst
                 /\ result.calls = CallsUpTo(dst.ts, value.vs, Min(fails))
    ELSE /\ result.kind = "Err"
         /\ result.error = "InvalidType"
         /\ result.dst \in NamesOf(dst)
         /\ result.calls = <<>>

C6_Witness ==
  /\ dst = TupleOf(<<T("u8"), T("&str")>>)
  /\ value = Tuple(<<Num("UInt8", 5), Str(<<104, 105>>)>>)
  /\ result.kind = "Ok" /\ result.val = <<5, <<104, 105>>>>

HasTable(x, enum_values) == "enum_values" \in DOMAIN x /\ x.enum_values = enum_values

\* C9 as stated: the enum destinations accept only their own tag and the
\* result keeps the symbol table of the value next to the member.
C9_Original ==
  (Done /\ dst.k \in {"Enum8", "Enum16"}) =>
    /\ (result.kind = "Ok") <=> (value.tag = dst.k)
    /\ result.kind = "Ok" =>
         (result.val.member = value.enum.member /\ HasTable(result.val, value.enum_values))

\* C9 (amended): the enum destinations accept only their own tag and the
\* result is the member alone; the symbol table of the value is not part
\* of it.
C9_EnumYieldsMemberOnly ==
  (Done /\ dst.k \in {"Enum8", "Enum16"}) =>
    /\ result.kind \in {"Ok", "Err"}
    /\ (result.kind = "Ok") <=> (value.tag = dst.k)
    /\ result.kind = "Ok" => (result.val = value.enum /\ DOMAIN result.val = {"member"})

C9_Witness ==
  /\ dst = T("Enum8") /\ value = Enum("Enum8", EnumTableA, 2)
  /\ result.kind = "Ok" /\ result.val.member = 2

(***************************************************************************)
(* Properties of the tuple column (SpecColumn)                             *)
(***************************************************************************)
Col(c) == columns[c][1]

\* C7: at(i) of a column of N sub-columns, for a row i it holds, is a
\* tuple of N components whose j-th is the j-th sub-column's value at i.
C7_AtRecombines ==
  (op.name = "at" /\ op.index < len(Col(op.c))) =>
    /\ ret.kind = "Ok"
    /\ ret.val.tag = "Tuple"
    /\ Len(ret.val.vs) = Len(Col(op.c).inners)
    /\ \A j \in 1..Len(Col(op.c).inners) :
         ret.val.vs[j] = Col(op.c).inners[j].data[op.index + 1]

C7_Witness ==
  /\ op.name = "at" /\ op.index = 1
  /\ ret.kind = "Ok"
  /\ ret.val = Tuple(<<Num("UInt8", 11), Str(<<120>>)>>)

\* C8: every column, loaded or cloned, reports the row count it was loaded
\* with, and so does each of its sub-columns.
C8_RowCountFixed ==
  \A c \in Live :
    /\ len(Col(c)) = loaded[c][1]
    /\ \A j \in 1..Len(Col(c).inners) : inner_len(Col(c).inners[j]) = len(Col(c))

C8_Witness ==
  /\ Live = Slots
  /\ \A c \in Slots : len(Col(c)) = MaxRows /\ Len(Col(c).inners) = MaxFields
  /\ op.name = "len" /\ op.c # 0

\* C10: push and save never return; they end in a panic, which is not an
\* error value, and leave the column as it was.
C10_PushSaveUnsupported ==
  [][(op'.name \in {"push", "save"}) => (ret'.kind = "Panic" /\ columns' = columns)]_vars

C10_Witness ==
  /\ op.name = "push" /\ ret.kind = "Panic"
  /\ len(Col(op.c)) = 2 /\ Len(Col(op.c).inners) = 2

====
